---- MODULE Spec2Model ----
(***************************************************************************)
(* The feature backlog of src/mcp_server/feature_mcp.py: one table of      *)
(* Feature rows keyed by id, the tools that query it and the tools that    *)
(* change it.  Every tool call is one action; the row table is `store`.    *)
(* `call` and `prev` record the last tool call and the table it was made   *)
(* on, `result` the JSON object the call returned.  `sessions` are the     *)
(* database sessions of tool calls that run at the same time, each at its  *)
(* own place in its tool's code; it is empty while calls come one by one.  *)
(* `mcp_config` is the file .claude/mcp_servers.json of the project        *)
(* directory, which get_project_mcp_servers of src/client.py loads.        *)
(* `agent` is the caller that works the backlog off: where it is in its    *)
(* loop of feature_get_next and feature_mark_passing, and the rows it got. *)
(***************************************************************************)
EXTENDS Integers, Sequences, FiniteSets, TLC

VARIABLES store, call, prev, result, sessions, mcp_config, agent

vars == <<store, call, prev, result, sessions, mcp_config, agent>>

(***************************************************************************)
(* Bounds of the model.                                                    *)
(***************************************************************************)
MaxFeatures == 3
MaxBatch == 2
MaxPrio == 3

(***************************************************************************)
(* Inputs.                                                                 *)
(***************************************************************************)
\* batch_id=None (feature_create_bulk's default)
NoBatch == "None"

\* the caller's catalogue of feature dicts: entry i of a `features` list is
\* catalogue entry i (i counted from 0)
ItemLogin ==
    [category |-> "ui", name |-> "Login", description |-> "auth form",
     steps |-> <<"open", "submit">>]
ItemSearch ==
    [category |-> "api", name |-> "Search", description |-> "find rows",
     steps |-> <<"query">>]

Catalogue(i) == IF i % 2 = 0 THEN ItemLogin ELSE ItemSearch

\* a dict that lacks a required key: "steps" at even indexes, "category" at odd
WithoutKey(item, key) == [k \in (DOMAIN item) \ {key} |-> item[k]]

Incomplete(i) ==
    WithoutKey(Catalogue(i), IF i % 2 = 0 THEN "steps" ELSE "category")

\* the `features` lists of the model: the first n catalogue entries, any of
\* them incomplete
FeatureLists ==
    UNION {{[j \in 1 .. n |-> IF j \in bad THEN Incomplete(j - 1) ELSE Catalogue(j - 1)] :
                bad \in SUBSET (1 .. n)} : n \in 0 .. MaxBatch}

\* priority_mode: str, with "middle" for a string that names no mode
PriorityModes == {"append", "prepend", "middle"}

\* source and batch_id are left at their defaults
DefaultSource == "initializer"

\* feature_id: int, ge=1
FeatureIds == 1 .. (MaxFeatures + 1)

(***************************************************************************)
(* The table.  Rows are never deleted, so the ids in use are 1..Len(s).    *)
(***************************************************************************)
Ids(s) == DOMAIN s

\* session.query(Feature).filter(Feature.passes == False)
Pending(s) == {id \in Ids(s) : ~s[id].passes}

\* session.query(Feature).filter(Feature.passes == True)
Passing(s) == {id \in Ids(s) : s[id].passes}

\* (priority, id) of row a sorts before that of row b
Before(s, a, b) ==
    \/ s[a].priority < s[b].priority
    \/ s[a].priority = s[b].priority /\ a < b

FirstPendingLargestIdMutant(s) ==
    CHOOSE a \in Pending(s) :
        \A b \in Pending(s) \ {a} :
            \/ s[a].priority < s[b].priority
            \/ s[a].priority = s[b].priority /\ a > b

\* .filter(passes == False).order_by(priority.asc(), id.asc()).first(),
\* for a table that has a pending row
FirstPending(s) ==
    CHOOSE a \in Pending(s) : \A b \in Pending(s) \ {a} : Before(s, a, b)

MaxPriorityPendingMutant(s) ==
    IF Pending(s) = {} THEN 0
    ELSE CHOOSE p \in {s[id].priority : id \in Pending(s)} :
            \A id \in Pending(s) : s[id].priority <= p

\* session.query(Feature.priority).order_by(Feature.priority.desc()).first()[0]
MaxPriority(s) ==
    CHOOSE p \in {s[id].priority : id \in Ids(s)} :
        \A id \in Ids(s) : s[id].priority <= p

\* .filter(passes == False).order_by(priority.asc()).first()[0]
MinPendingPriority(s) ==
    CHOOSE p \in {s[id].priority : id \in Pending(s)} :
        \A id \in Pending(s) : p <= s[id].priority

NextPriorityRowCountMutant(s) == Len(s) + 1

\* (max_priority_result[0] + 1) if max_priority_result else 1
NextPriority(s) == IF Ids(s) # {} THEN MaxPriority(s) + 1 ELSE 1

(***************************************************************************)
(* feature_get_next                                                        *)
(***************************************************************************)
NoWorkError == [error |-> <<"All features are passing! No more work to do.">>]

GetNextResult(s) ==
    IF Pending(s) = {} THEN NoWorkError ELSE s[FirstPending(s)]

(***************************************************************************)
(* feature_mark_passing, feature_skip                                      *)
(***************************************************************************)
NotFoundRaisesMutant(feature_id) == [raised |-> "AttributeError"]

NotFoundError(feature_id) ==
    [error |-> <<"Feature with ID ", feature_id, " not found">>]

AlreadyPassingError ==
    [error |-> <<"Cannot skip a feature that is already passing">>]

MarkPassingToggleMutant(s, feature_id) ==
    IF feature_id \notin Ids(s) THEN s
    ELSE [s EXCEPT ![feature_id].passes = ~s[feature_id].passes]

MarkPassingNoWriteMutant(s, feature_id) == s

\* feature.passes = True; session.commit()
MarkPassingStore(s, feature_id) ==
    IF feature_id \notin Ids(s) THEN s
    ELSE [s EXCEPT ![feature_id].passes = TRUE]

MarkPassingResultStaleMutant(s, feature_id) ==
    IF feature_id \notin Ids(s) THEN NotFoundError(feature_id)
    ELSE s[feature_id]

\* session.refresh(feature); feature.to_dict()
MarkPassingResult(s, feature_id) ==
    IF feature_id \notin Ids(s) THEN NotFoundError(feature_id)
    ELSE MarkPassingStore(s, feature_id)[feature_id]

SkipAllowedAlwaysMutant(s, feature_id) == feature_id \in Ids(s)

\* neither early return of feature_skip is taken
SkipAllowed(s, feature_id) ==
    feature_id \in Ids(s) /\ ~s[feature_id].passes

SkipNewPriorityPendingMutant(s) == MaxPriorityPendingMutant(s) + 1

SkipNewPriorityNoIncrementMutant(s) == MaxPriority(s)

SkipNewPriority(s) == NextPriority(s)

SkipStoreRenumbersMutant(s, feature_id) ==
    IF SkipAllowed(s, feature_id)
    THEN [id \in Ids(s) |->
             IF id = feature_id
             THEN [s[id] EXCEPT !.priority = SkipNewPriority(s) - 1]
             ELSE IF s[id].priority > s[feature_id].priority
             THEN [s[id] EXCEPT !.priority = @ - 1]
             ELSE s[id]]
    ELSE s

\* feature.priority = new_priority; session.commit()
SkipStore(s, feature_id) ==
    IF SkipAllowed(s, feature_id)
    THEN [s EXCEPT ![feature_id].priority = SkipNewPriority(s)]
    ELSE s

SkipResult(s, feature_id) ==
    IF feature_id \notin Ids(s) THEN NotFoundError(feature_id)
    ELSE IF s[feature_id].passes THEN AlreadyPassingError
    ELSE [id |-> feature_id,
          name |-> s[feature_id].name,
          old_priority |-> s[feature_id].priority,
          new_priority |-> SkipNewPriority(s),
          message |-> <<"Feature '", s[feature_id].name, "' moved to end of queue">>]

(***************************************************************************)
(* feature_create_bulk                                                     *)
(***************************************************************************)
RequiredKeys == {"category", "name", "description", "steps"}

\* all(key in feature_data for key in ["category", "name", "description", "steps"])
HasRequiredKeys(feature_data) ==
    \A key \in RequiredKeys : key \in DOMAIN feature_data

MissingFieldsError(i) ==
    [error |-> <<"Feature at index ", i,
                 " missing required fields (category, name, description, steps)">>]

\* str(e) of an exception raised by the session
StoreError == [error |-> <<"store failure">>]

\* where the session raises in a call, if it does: in the priority queries
\* before the loop, or in session.commit()
StoreFaults == {"none", "query", "commit"}

StartPriorityPrependMinAllMutant(s, priority_mode, n) ==
    IF priority_mode = "prepend" /\ Ids(s) # {}
    THEN (CHOOSE p \in {s[id].priority : id \in Ids(s)} :
             \A id \in Ids(s) : p <= s[id].priority) - n
    ELSE NextPriority(s)

StartPriorityPrependOffByOneMutant(s, priority_mode, n) ==
    IF priority_mode = "prepend" /\ Pending(s) # {}
    THEN MinPendingPriority(s) - n + 1
    ELSE NextPriority(s)

StartPriorityAppendOffByOneMutant(s, priority_mode, n) ==
    IF priority_mode = "prepend" /\ Pending(s) # {}
    THEN MinPendingPriority(s) - n
    ELSE IF Ids(s) # {} THEN MaxPriority(s) ELSE 1

\* start_priority, for a call with n = len(features)
StartPriority(s, priority_mode, n) ==
    IF priority_mode = "prepend"
    THEN IF Pending(s) # {}
         THEN MinPendingPriority(s) - n
         ELSE NextPriority(s)
    ELSE NextPriority(s)

NewRowReversedMutant(features, i, start_priority, source, batch_id) ==
    [priority |-> start_priority + (Len(features) - 1 - i),
     category |-> features[i + 1].category,
     name |-> features[i + 1].name,
     description |-> features[i + 1].description,
     steps |-> features[i + 1].steps,
     passes |-> FALSE,
     source |-> source,
     batch_id |-> batch_id]

\* Feature(priority=start_priority + i, ..., passes=False, ...), i counted from 0
NewRow(features, i, start_priority, source, batch_id) ==
    [priority |-> start_priority + i,
     category |-> features[i + 1].category,
     name |-> features[i + 1].name,
     description |-> features[i + 1].description,
     steps |-> features[i + 1].steps,
     passes |-> FALSE,
     source |-> source,
     batch_id |-> batch_id]

\* the for loop, from index i on; `added` are the rows session.add()ed so far.
\* It ends complete, or returns early at the first dict that lacks a key
RECURSIVE AddLoop(_, _, _, _, _, _)
AddLoop(features, i, start_priority, source, batch_id, added) ==
    IF i >= Len(features) THEN [complete |-> TRUE, added |-> added]
    ELSE IF ~HasRequiredKeys(features[i + 1])
         THEN [complete |-> FALSE, added |-> added, index |-> i]
    ELSE AddLoop(features, i + 1, start_priority, source, batch_id,
                 Append(added, NewRow(features, i, start_priority, source, batch_id)))

\* the id the table gives the k-th row that a commit inserts
InsertId(s, k) == Len(s) + k

\* session.commit() with the rows `added` in the session
CommitAdded(s, added) ==
    s \o [k \in 1 .. Len(added) |-> [id |-> InsertId(s, k)] @@ added[k]]

AbortCommitsAddedMutant(s, added) == CommitAdded(s, added)

\* session.close() (early return) or session.rollback() (exception) with the
\* rows `added` in the session and no commit
AbortAdded(s, added) == s

CreateBulkStore(s, features, priority_mode, source, batch_id, store_fault) ==
    LET start_priority == StartPriority(s, priority_mode, Len(features))
        loop == AddLoop(features, 0, start_priority, source, batch_id, <<>>)
    IN  IF store_fault = "query" THEN AbortAdded(s, <<>>)
        ELSE IF ~loop.complete THEN AbortAdded(s, loop.added)
        ELSE IF store_fault = "commit" THEN AbortAdded(s, loop.added)
        ELSE CommitAdded(s, loop.added)

CreateBulkResult(s, features, priority_mode, source, batch_id, store_fault) ==
    LET start_priority == StartPriority(s, priority_mode, Len(features))
        loop == AddLoop(features, 0, start_priority, source, batch_id, <<>>)
    IN  IF store_fault = "query" THEN StoreError
        ELSE IF ~loop.complete THEN MissingFieldsError(loop.index)
        ELSE IF store_fault = "commit" THEN StoreError
        ELSE [created |-> Len(loop.added),
              priority_mode |-> priority_mode,
              start_priority |-> start_priority,
              source |-> source,
              batch_id |-> batch_id]

(***************************************************************************)
(* Text.  A str is a name of the model; Chars gives its characters, Code   *)
(* the code point of a character.                                          *)
(***************************************************************************)
LowerCase ==
    <<"a", "b", "c", "d", "e", "f", "g", "h", "i", "j", "k", "l", "m",
      "n", "o", "p", "q", "r", "s", "t", "u", "v", "w", "x", "y", "z">>

UpperCase ==
    <<"A", "B", "C", "D", "E", "F", "G", "H", "I", "J", "K", "L", "M",
      "N", "O", "P", "Q", "R", "S", "T", "U", "V", "W", "X", "Y", "Z">>

Chars(str) ==
    CASE str = "ui" -> <<"u", "i">>
      [] str = "api" -> <<"a", "p", "i">>
      [] str = "Login" -> <<"L", "o", "g", "i", "n">>
      [] str = "Search" -> <<"S", "e", "a", "r", "c", "h">>
      [] str = "auth form" -> <<"a", "u", "t", "h", " ", "f", "o", "r", "m">>
      [] str = "find rows" -> <<"f", "i", "n", "d", " ", "r", "o", "w", "s">>
      [] str = "lo" -> <<"l", "o">>
      [] str = "ROWS" -> <<"R", "O", "W", "S">>
      [] str = "_" -> <<"_">>
      [] str = "%" -> <<"%">>
      [] str = "cwd" -> <<"c", "w", "d">>
      [] str = "artisan" -> <<"a", "r", "t", "i", "s", "a", "n">>
      [] str = "/tmp/cwd" -> <<"/", "t", "m", "p", "/", "c", "w", "d">>

\* ord(ch)
Code(ch) ==
    IF \E i \in DOMAIN UpperCase : UpperCase[i] = ch
    THEN 64 + (CHOOSE i \in DOMAIN UpperCase : UpperCase[i] = ch)
    ELSE IF \E i \in DOMAIN LowerCase : LowerCase[i] = ch
    THEN 96 + (CHOOSE i \in DOMAIN LowerCase : LowerCase[i] = ch)
    ELSE CASE ch = " " -> 32 [] ch = "%" -> 37 [] ch = "_" -> 95

\* the lower-case form of an ASCII letter; any other character is itself
Lower(ch) ==
    IF \E i \in DOMAIN UpperCase : UpperCase[i] = ch
    THEN LowerCase[CHOOSE i \in DOMAIN UpperCase : UpperCase[i] = ch]
    ELSE ch

\* a < b for two character sequences, compared code point by code point
RECURSIVE CharsLess(_, _)
CharsLess(a, b) ==
    IF b = <<>> THEN FALSE
    ELSE IF a = <<>> THEN TRUE
    ELSE IF Code(Head(a)) # Code(Head(b)) THEN Code(Head(a)) < Code(Head(b))
    ELSE CharsLess(Tail(a), Tail(b))

\* text LIKE pattern, case-insensitive: '%' in the pattern stands for any run
\* of characters, '_' for any one character
RECURSIVE Like(_, _)
Like(pattern, text) ==
    IF pattern = <<>> THEN text = <<>>
    ELSE IF Head(pattern) = "%"
         THEN \/ Like(Tail(pattern), text)
              \/ text # <<>> /\ Like(pattern, Tail(text))
    ELSE IF Head(pattern) = "_"
         THEN text # <<>> /\ Like(Tail(pattern), Tail(text))
    ELSE /\ text # <<>>
         /\ Lower(Head(pattern)) = Lower(Head(text))
         /\ Like(Tail(pattern), Tail(text))

(***************************************************************************)
(* feature_get_stats                                                       *)
(***************************************************************************)
\* A Python float is an IEEE 754 double: a significand of 53 bits.  Here a
\* positive float is [bits, scale]: the significand as a sequence of bits, the
\* first bit 1 and the most significant, and the number of those bits that lie
\* after the binary point; its value is Value(bits) / 2^scale
MantissaBits == 53

\* exact products are computed on limbs of LimbBits bits
LimbBits == 13

RECURSIVE Pow2(_)
Pow2(n) == IF n = 0 THEN 1 ELSE 2 * Pow2(n - 1)

\* 2^n modulo t
RECURSIVE Pow2Mod(_, _)
Pow2Mod(n, t) ==
    IF n = 0 THEN 1 % t
    ELSE LET h == Pow2Mod(n \div 2, t)
         IN  (((h * h) % t) * (IF n % 2 = 1 THEN 2 ELSE 1)) % t

\* the number that a short sequence of bits holds
RECURSIVE Value(_)
Value(bits) ==
    IF bits = <<>> THEN 0
    ELSE 2 * Value(SubSeq(bits, 1, Len(bits) - 1)) + bits[Len(bits)]

AnyBit(bits) == \E i \in DOMAIN bits : bits[i] = 1

\* bits without the zeros in front
Strip(bits) ==
    IF AnyBit(bits)
    THEN SubSeq(bits, CHOOSE i \in DOMAIN bits :
                          /\ bits[i] = 1
                          /\ \A j \in 1 .. i - 1 : bits[j] = 0,
                Len(bits))
    ELSE <<>>

\* the limbs of a sequence of bits, the least significant limb first
Limbs(bits) ==
    [j \in 1 .. (Len(bits) + LimbBits - 1) \div LimbBits |->
        Value(SubSeq(bits,
                     IF Len(bits) - LimbBits * j + 1 > 1
                     THEN Len(bits) - LimbBits * j + 1 ELSE 1,
                     Len(bits) - LimbBits * (j - 1)))]

\* the bits of a sequence of limbs
Bits(limbs) ==
    Strip([i \in 1 .. LimbBits * Len(limbs) |->
              LET below == LimbBits * Len(limbs) - i
              IN  (limbs[below \div LimbBits + 1] \div Pow2(below % LimbBits)) % 2])

\* limbs * k + carry, exactly
RECURSIVE TimesLimbs(_, _, _)
TimesLimbs(limbs, k, carry) ==
    IF limbs = <<>>
    THEN IF carry = 0 THEN <<>> ELSE <<carry>>
    ELSE LET v == Head(limbs) * k + carry
         IN  <<v % Pow2(LimbBits)>> \o TimesLimbs(Tail(limbs), k, v \div Pow2(LimbBits))

\* bits * k, exactly
Times(bits, k) == Bits(TimesLimbs(Limbs(bits), k, 0))

\* bits + 1
Increment(bits) ==
    IF \A i \in DOMAIN bits : bits[i] = 1
    THEN <<1>> \o [i \in DOMAIN bits |-> 0]
    ELSE LET last == CHOOSE i \in DOMAIN bits :
                         /\ bits[i] = 0
                         /\ \A j \in i + 1 .. Len(bits) : bits[j] = 1
         IN  [i \in DOMAIN bits |->
                 IF i < last THEN bits[i] ELSE IF i = last THEN 1 ELSE 0]

\* what is left of r / t, r < t, after n bits of the quotient
Remainder(r, t, n) == (r * Pow2Mod(n, t)) % t

\* the first n bits of r / t after the binary point, r < t
QuotientBits(r, t, n) ==
    [i \in 1 .. n |-> IF 2 * Remainder(r, t, i - 1) >= t THEN 1 ELSE 0]

\* the number of doublings that bring p up to t
RECURSIVE Doublings(_, _)
Doublings(p, t) == IF p >= t THEN 0 ELSE 1 + Doublings(2 * p, t)

\* a significand that rounding up carried into one more bit loses its last
\* bit, a 0
Normalise(bits, scale) ==
    IF Len(bits) > MantissaBits
    THEN [bits |-> SubSeq(bits, 1, MantissaBits), scale |-> scale - 1]
    ELSE [bits |-> bits, scale |-> scale]

\* the float nearest to Value(bits) / 2^scale, a tie to the even significand
RoundToFloat(bits, scale) ==
    IF Len(bits) <= MantissaBits THEN [bits |-> bits, scale |-> scale]
    ELSE LET keep == SubSeq(bits, 1, MantissaBits)
             rest == SubSeq(bits, MantissaBits + 1, Len(bits))
             up == /\ rest[1] = 1
                   /\ AnyBit(Tail(rest)) \/ keep[MantissaBits] = 1
         IN  Normalise(IF up THEN Increment(keep) ELSE keep, scale - Len(rest))

\* passing / total for 1 <= passing <= total: the float nearest to the
\* quotient, a tie to the even significand
TrueDivide(passing, total) ==
    LET e == Doublings(passing, total)
        r == Pow2(e) * passing - total
        m == <<1>> \o QuotientBits(r, total, MantissaBits - 1)
        rem == Remainder(r, total, MantissaBits - 1)
        up == \/ 2 * rem > total
              \/ 2 * rem = total /\ m[MantissaBits] = 1
    IN  Normalise(IF up THEN Increment(m) ELSE m, MantissaBits - 1 + e)

\* x * k for a float x and a positive int k: the float nearest to the product
FloatTimes(x, k) == RoundToFloat(Times(x.bits, k), x.scale)

\* round(y, 1) for a float y >= 1, as the number of tenths (66.7 is 667): the
\* tenth nearest to the value that y holds, a tie to the even tenth
RoundTenths(y) ==
    LET tenths == Times(y.bits, 10)
        whole == Value(SubSeq(tenths, 1, Len(tenths) - y.scale))
        rest == SubSeq(tenths, Len(tenths) - y.scale + 1, Len(tenths))
        up == /\ rest[1] = 1
              /\ AnyBit(Tail(rest)) \/ whole % 2 = 1
    IN  IF up THEN whole + 1 ELSE whole

\* round((passing / total) * 100, 1) if total > 0 else 0.0, as the number of
\* tenths, for 0 <= passing <= total.  The quotient is rounded to a float
\* before it is multiplied, and the product is rounded to a float before
\* round() sees it: 23 / 80 is 0.28749999999999998, times 100 is
\* 28.749999999999996, and round() gives 28.7.  0 / total is 0.0 and stays 0.0
Percentage(passing, total) ==
    IF total > 0
    THEN IF passing = 0 THEN 0
         ELSE RoundTenths(FloatTimes(TrueDivide(passing, total), 100))
    ELSE 0

GetStatsResult(s) ==
    [passing |-> Cardinality(Passing(s)),
     total |-> Len(s),
     percentage |-> Percentage(Cardinality(Passing(s)), Len(s))]

(***************************************************************************)
(* feature_get_for_regression                                              *)
(***************************************************************************)
\* limit: int, ge=1, le=10
RegressionLimitMin == 1
RegressionLimitMax == 10
RegressionLimits == {RegressionLimitMin, 2, RegressionLimitMax}

\* the sequences of k different members of a set of ids
Arrangements(ids, k) ==
    {seq \in [1 .. k -> ids] : \A i, j \in 1 .. k : i # j => seq[i] # seq[j]}

Smaller(a, b) == IF a < b THEN a ELSE b

RegressionSamplesAnyRowMutant(s, limit) ==
    Arrangements(Ids(s), Smaller(limit, Cardinality(Ids(s))))

\* .filter(passes == True).order_by(func.random()).limit(limit).all(): every
\* outcome of the random order
RegressionSamples(s, limit) ==
    Arrangements(Passing(s), Smaller(limit, Cardinality(Passing(s))))

GetForRegressionResult(s, sample) ==
    [features |-> [i \in DOMAIN sample |-> s[sample[i]]],
     count |-> Len(sample)]

(***************************************************************************)
(* feature_get_all_categories, feature_get_summary                         *)
(***************************************************************************)
Categories(s) == {s[id].category : id \in Ids(s)}

\* query(Feature.category).distinct().order_by(Feature.category.asc())
CategoryList(s) ==
    CHOOSE seq \in [1 .. Cardinality(Categories(s)) -> Categories(s)] :
        \A i, j \in DOMAIN seq : i < j => CharsLess(Chars(seq[i]), Chars(seq[j]))

GetAllCategoriesResult(s) ==
    [categories |-> CategoryList(s), count |-> Len(CategoryList(s))]

CategoryPassingCountsPendingMutant(s, cat) ==
    Cardinality({id \in Ids(s) : s[id].category = cat /\ ~s[id].passes})

\* func.count(Feature.id) of a group
CategoryTotal(s, cat) ==
    Cardinality({id \in Ids(s) : s[id].category = cat})

\* func.sum(case((Feature.passes == True, 1), else_=0)) of a group
CategoryPassing(s, cat) ==
    Cardinality({id \in Ids(s) : s[id].category = cat /\ s[id].passes})

\* .group_by(Feature.category).order_by(Feature.category.asc()).all()
CategoryStats(s) ==
    [i \in DOMAIN CategoryList(s) |->
        [name |-> CategoryList(s)[i],
         total |-> CategoryTotal(s, CategoryList(s)[i]),
         passing |-> CategoryPassing(s, CategoryList(s)[i])]]

\* sum(r[key] for r in rows)
RECURSIVE SumOf(_, _)
SumOf(rows, key) ==
    IF rows = <<>> THEN 0 ELSE Head(rows)[key] + SumOf(Tail(rows), key)

GetSummaryResult(s) ==
    [categories |-> CategoryStats(s),
     overall |-> [total |-> SumOf(CategoryStats(s), "total"),
                  passing |-> SumOf(CategoryStats(s), "passing")]]

(***************************************************************************)
(* feature_search                                                          *)
(***************************************************************************)
\* query: str
Queries == {"lo", "ROWS", "_", "%"}

\* limit: int, ge=1, le=50
SearchLimitMin == 1
SearchLimitMax == 50
SearchLimits == {SearchLimitMin, SearchLimitMax}

\* f"%{query}%"
SearchPattern(query) == <<"%">> \o Chars(query) \o <<"%">>

\* name.ilike(pattern) | description.ilike(pattern)
Matches(s, query) ==
    {id \in Ids(s) :
        \/ Like(SearchPattern(query), Chars(s[id].name))
        \/ Like(SearchPattern(query), Chars(s[id].description))}

\* .order_by(Feature.priority.asc()).limit(limit).all(): the first rows of
\* every order of the matching rows that is ascending in priority (rows of
\* equal priority come in any order)
SearchResults(s, query, limit) ==
    {seq \in Arrangements(Matches(s, query),
                          Smaller(limit, Cardinality(Matches(s, query)))) :
        /\ \A i, j \in DOMAIN seq : i < j => s[seq[i]].priority <= s[seq[j]].priority
        /\ \A i \in DOMAIN seq :
              \A id \in Matches(s, query) \ {seq[k] : k \in DOMAIN seq} :
                  s[seq[i]].priority <= s[id].priority}

SearchResult(s, found) ==
    [features |-> [i \in DOMAIN found |->
                      [id |-> s[found[i]].id,
                       name |-> s[found[i]].name,
                       category |-> s[found[i]].category,
                       passes |-> s[found[i]].passes]],
     count |-> Len(found)]

(***************************************************************************)
(* get_project_mcp_servers (src/client.py)                                 *)
(***************************************************************************)
\* project_dir, as given and as a relative path; the process runs in /srv
ProjectDirs == {"/srv/app", "app"}

\* str(project_dir.resolve())
Resolve(project_dir) == IF project_dir = "app" THEN "/srv/app" ELSE project_dir

\* the values json.load can give for a server entry: a dict without and with
\* "cwd", an int, two strs, None and two lists
ServerValues ==
    {[kind |-> "object", members |-> [command |-> "php"]],
     [kind |-> "object", members |-> [command |-> "npx", cwd |-> "/opt/tools"]],
     [kind |-> "number", value |-> 7],
     [kind |-> "string", text |-> "artisan"],
     [kind |-> "string", text |-> "/tmp/cwd"],
     [kind |-> "null"],
     [kind |-> "array", items |-> <<>>],
     [kind |-> "array", items |-> <<"cwd">>]}

ServerNames == {"laravel-boost", "playwright"}

\* the values json.load can give for the whole file: a dict of server
\* entries, or a list, a str, an int, None
ConfigValues ==
    UNION {{[kind |-> "object", members |-> members] :
                members \in [names -> ServerValues]} : names \in SUBSET ServerNames}
    \cup {[kind |-> "array", items |-> <<1>>],
          [kind |-> "string", text |-> "artisan"],
          [kind |-> "number", value |-> 7],
          [kind |-> "null"]}

\* .claude/mcp_servers.json: absent; present but open() raises OSError;
\* bytes that are no UTF-8 text; text that is no JSON; JSON text
ConfigFiles ==
    {[state |-> "missing"], [state |-> "unreadable"],
     [state |-> "undecodable"], [state |-> "malformed"]}
    \cup {[state |-> "json", value |-> value] : value \in ConfigValues}

\* {}
EmptyDict == [name \in {} |-> name]

\* `part` occurs in `text` as a run of characters
Occurs(text, part) ==
    \E i \in 0 .. (Len(text) - Len(part)) :
        SubSeq(text, i + 1, i + Len(part)) = part

\* "cwd" not in server_config raises TypeError
CwdTestRaises(server_config) == server_config.kind \in {"number", "null"}

\* "cwd" in server_config, for a dict (a key), a str (a substring) and a
\* list (an item)
HasCwd(server_config) ==
    IF server_config.kind = "object" THEN "cwd" \in DOMAIN server_config.members
    ELSE IF server_config.kind = "string"
         THEN Occurs(Chars(server_config.text), Chars("cwd"))
    ELSE \E i \in DOMAIN server_config.items : server_config.items[i] = "cwd"

\* server_config["cwd"] = ... raises TypeError for a str and for a list
CwdAssignRaises(server_config) == server_config.kind # "object"

\* if "cwd" not in server_config: server_config["cwd"] = str(project_dir.resolve())
SetCwd(server_config, project_dir) ==
    IF HasCwd(server_config) THEN server_config
    ELSE [server_config EXCEPT
             !.members = [cwd |-> Resolve(project_dir)] @@ @]

GetProjectMcpServersResult(project_dir, file) ==
    IF file.state = "missing" THEN [returned |-> EmptyDict]
    ELSE IF file.state \in {"unreadable", "malformed"} THEN [returned |-> EmptyDict]
    ELSE IF file.state = "undecodable" THEN [raised |-> "UnicodeDecodeError"]
    ELSE LET config == file.value
         IN  IF config.kind # "object" THEN [raised |-> "AttributeError"]
             ELSE IF \E server_name \in DOMAIN config.members :
                        \/ CwdTestRaises(config.members[server_name])
                        \/ /\ ~HasCwd(config.members[server_name])
                           /\ CwdAssignRaises(config.members[server_name])
                  THEN [raised |-> "TypeError"]
             ELSE [returned |->
                      [server_name \in DOMAIN config.members |->
                          SetCwd(config.members[server_name], project_dir)]]

(***************************************************************************)
(* State machine                                                           *)
(***************************************************************************)
\* no caller is working the backlog off
NoAgent == [pc |-> "idle", received |-> <<>>, backlog |-> {}]

Init ==
    /\ store = <<>>
    /\ prev = <<>>
    /\ call = [op |-> "startup"]
    /\ result = [started |-> TRUE]
    /\ sessions = <<>>
    /\ mcp_config = [state |-> "missing"]
    /\ agent = NoAgent

FeatureGetNext ==
    /\ call' = [op |-> "feature_get_next"]
    /\ prev' = store
    /\ result' = GetNextResult(store)
    /\ UNCHANGED <<store, sessions, mcp_config, agent>>

FeatureMarkPassing ==
    \E feature_id \in FeatureIds :
        /\ call' = [op |-> "feature_mark_passing", feature_id |-> feature_id]
        /\ prev' = store
        /\ store' = MarkPassingStore(store, feature_id)
        /\ result' = MarkPassingResult(store, feature_id)
        /\ UNCHANGED <<sessions, mcp_config, agent>>

FeatureSkip ==
    \E feature_id \in FeatureIds :
        /\ SkipAllowed(store, feature_id) => SkipNewPriority(store) <= MaxPrio
        /\ call' = [op |-> "feature_skip", feature_id |-> feature_id]
        /\ prev' = store
        /\ store' = SkipStore(store, feature_id)
        /\ result' = SkipResult(store, feature_id)
        /\ UNCHANGED <<sessions, mcp_config, agent>>

FeatureCreateBulk ==
    \E features \in FeatureLists, priority_mode \in PriorityModes,
       store_fault \in StoreFaults :
        LET provenance == <<DefaultSource, NoBatch>>
            after == CreateBulkStore(store, features, priority_mode,
                                     provenance[1], provenance[2], store_fault)
        IN  /\ Len(store) + Len(features) <= MaxFeatures
            /\ \A id \in Ids(after) : after[id].priority <= MaxPrio
            /\ call' = [op |-> "feature_create_bulk",
                        features |-> features,
                        priority_mode |-> priority_mode,
                        source |-> provenance[1],
                        batch_id |-> provenance[2],
                        store_fault |-> store_fault]
            /\ prev' = store
            /\ store' = after
            /\ result' = CreateBulkResult(store, features, priority_mode,
                                          provenance[1], provenance[2], store_fault)
            /\ UNCHANGED <<sessions, mcp_config, agent>>

FeatureGetStats ==
    /\ call' = [op |-> "feature_get_stats"]
    /\ prev' = store
    /\ result' = GetStatsResult(store)
    /\ UNCHANGED <<store, sessions, mcp_config, agent>>

FeatureGetForRegression ==
    \E limit \in RegressionLimits :
        \E sample \in RegressionSamples(store, limit) :
            /\ call' = [op |-> "feature_get_for_regression", limit |-> limit]
            /\ prev' = store
            /\ result' = GetForRegressionResult(store, sample)
            /\ UNCHANGED <<store, sessions, mcp_config, agent>>

FeatureGetAllCategories ==
    /\ call' = [op |-> "feature_get_all_categories"]
    /\ prev' = store
    /\ result' = GetAllCategoriesResult(store)
    /\ UNCHANGED <<store, sessions, mcp_config, agent>>

FeatureGetSummary ==
    /\ call' = [op |-> "feature_get_summary"]
    /\ prev' = store
    /\ result' = GetSummaryResult(store)
    /\ UNCHANGED <<store, sessions, mcp_config, agent>>

FeatureSearch ==
    \E query \in Queries, limit \in SearchLimits :
        \E found \in SearchResults(store, query, limit) :
            /\ call' = [op |-> "feature_search", query |-> query, limit |-> limit]
            /\ prev' = store
            /\ result' = SearchResult(store, found)
            /\ UNCHANGED <<store, sessions, mcp_config, agent>>

Next ==
    \/ FeatureGetNext
    \/ FeatureMarkPassing
    \/ FeatureSkip
    \/ FeatureCreateBulk

Spec == Init /\ [][Next]_vars

(***************************************************************************)
(* The server started on a table that the legacy import filled: up to      *)
(* MaxFeatures rows with any priorities and passes, equal priorities       *)
(* included.                                                               *)
(***************************************************************************)
ImportedPriorities == {1, 2}

ImportedRow(id, priority, passes) ==
    [id |-> id, priority |-> priority, passes |-> passes,
     source |-> DefaultSource, batch_id |-> NoBatch] @@ Catalogue(id - 1)

Tables ==
    UNION {{[id \in 1 .. n |-> ImportedRow(id, priority[id], id \in passing)] :
                priority \in [1 .. n -> ImportedPriorities], passing \in SUBSET (1 .. n)} :
           n \in 0 .. MaxFeatures}

InitTables ==
    /\ store \in Tables
    /\ prev = store
    /\ call = [op |-> "startup"]
    /\ result = [started |-> TRUE]
    /\ sessions = <<>>
    /\ mcp_config = [state |-> "missing"]
    /\ agent = NoAgent

SpecTables == InitTables /\ [][Next]_vars

(***************************************************************************)
(* All the tools, the query tools included.                                *)
(***************************************************************************)
NextTools ==
    \/ FeatureGetStats
    \/ FeatureGetNext
    \/ FeatureGetForRegression
    \/ FeatureGetAllCategories
    \/ FeatureGetSummary
    \/ FeatureSearch
    \/ FeatureMarkPassing
    \/ FeatureSkip
    \/ FeatureCreateBulk

SpecTools == Init /\ [][NextTools]_vars

(***************************************************************************)
(* The query tools alone, on a table that the legacy import filled.        *)
(***************************************************************************)
NextQueries ==
    \/ FeatureGetStats
    \/ FeatureGetNext
    \/ FeatureGetForRegression
    \/ FeatureGetAllCategories
    \/ FeatureGetSummary
    \/ FeatureSearch

SpecQueries == InitTables /\ [][NextQueries]_vars

(***************************************************************************)
(* feature_get_stats on a larger table: up to MaxStatsRows rows, the rows  *)
(* of the smallest ids passing.  The counts are all that the tool reads.   *)
(***************************************************************************)
MaxStatsRows == 80

StatsTables ==
    UNION {{[id \in 1 .. n |-> ImportedRow(id, 1, id <= passing)] : passing \in 0 .. n} :
           n \in 0 .. MaxStatsRows}

InitStats ==
    /\ store \in StatsTables
    /\ prev = store
    /\ call = [op |-> "startup"]
    /\ result = [started |-> TRUE]
    /\ sessions = <<>>
    /\ mcp_config = [state |-> "missing"]
    /\ agent = NoAgent

NextStats == FeatureGetStats

SpecStats == InitStats /\ [][NextStats]_vars

(***************************************************************************)
(* Two tool calls at the same time.  Each call has its own session from    *)
(* get_session() and runs its tool's statements in order; between two      *)
(* statements of one call the other call may run.  A query reads the table *)
(* as committed at that moment and session.commit() writes what the call   *)
(* assigned.  No statement of the tools locks the table or reads it again  *)
(* before the write.                                                       *)
(***************************************************************************)
SessionNames == {"a", "b"}

\* a call that has run no statement yet
SkipSession(feature_id) ==
    [op |-> "feature_skip", feature_id |-> feature_id, features |-> <<>>,
     priority_mode |-> "append", pc |-> "lookup", priority |-> 0,
     assigned |-> {}, became_passing |-> FALSE, stale |-> FALSE,
     outcome |-> "running"]

MarkPassingSession(feature_id) ==
    [op |-> "feature_mark_passing", feature_id |-> feature_id, features |-> <<>>,
     priority_mode |-> "append", pc |-> "lookup", priority |-> 0,
     assigned |-> {}, became_passing |-> FALSE, stale |-> FALSE,
     outcome |-> "running"]

CreateBulkSession(features, priority_mode) ==
    [op |-> "feature_create_bulk", feature_id |-> 0, features |-> features,
     priority_mode |-> priority_mode,
     pc |-> IF priority_mode = "prepend" THEN "scan_min" ELSE "scan",
     priority |-> 0,
     assigned |-> {}, became_passing |-> FALSE, stale |-> FALSE,
     outcome |-> "running"]

\* the calls of the two sessions: any id, any non-empty list of complete dicts
SessionCalls ==
    {SkipSession(feature_id) : feature_id \in FeatureIds}
    \cup {MarkPassingSession(feature_id) : feature_id \in FeatureIds}
    \cup {CreateBulkSession(features, priority_mode) :
              features \in {f \in FeatureLists :
                               /\ Len(f) > 0
                               /\ \A i \in DOMAIN f : HasRequiredKeys(f[i])},
              priority_mode \in PriorityModes}

InitConcurrent ==
    /\ store \in Tables
    /\ prev = store
    /\ call = [op |-> "startup"]
    /\ result = [started |-> TRUE]
    /\ sessions \in [SessionNames -> SessionCalls]
    /\ mcp_config = [state |-> "missing"]
    /\ agent = NoAgent

\* the sessions after `self` took a step that wrote nothing
Moved(self, after) == [sessions EXCEPT ![self] = after]

\* the sessions after `self` committed: a session that has read the table and
\* not yet committed now holds values the table no longer has
Committed(self, after) ==
    [t \in SessionNames |->
        IF t = self THEN after
        ELSE IF \/ sessions[t].pc = "commit"
                \/ /\ sessions[t].pc = "scan"
                   /\ \/ sessions[t].op = "feature_skip"
                      \/ sessions[t].priority_mode = "prepend"
             THEN [sessions[t] EXCEPT !.stale = TRUE]
             ELSE sessions[t]]

\* feature = session.query(Feature).filter(Feature.id == feature_id).first()
\* and the early returns that follow it
SessionLookup(self) ==
    LET me == sessions[self]
        found == IF me.op = "feature_skip"
                 THEN SkipAllowed(store, me.feature_id)
                 ELSE me.feature_id \in Ids(store)
    IN  /\ me.pc = "lookup"
        /\ sessions' = Moved(self,
              IF ~found THEN [me EXCEPT !.pc = "done", !.outcome = "error"]
              ELSE IF me.op = "feature_skip" THEN [me EXCEPT !.pc = "scan"]
              ELSE [me EXCEPT !.pc = "commit"])
        /\ UNCHANGED <<store, call, prev, result, mcp_config, agent>>

\* the min_pending query of feature_create_bulk in prepend mode: with a
\* pending row it gives start_priority, without one the max query comes next
SessionScanMin(self) ==
    LET me == sessions[self]
    IN  /\ me.pc = "scan_min"
        /\ sessions' = Moved(self,
              IF Pending(store) # {}
              THEN [me EXCEPT !.pc = "commit",
                              !.priority = MinPendingPriority(store) - Len(me.features)]
              ELSE [me EXCEPT !.pc = "scan"])
        /\ UNCHANGED <<store, call, prev, result, mcp_config, agent>>

\* the max query: new_priority of feature_skip, start_priority of
\* feature_create_bulk (append, or prepend that found no pending row)
SessionScan(self) ==
    LET me == sessions[self]
    IN  /\ me.pc = "scan"
        /\ sessions' = Moved(self,
              [me EXCEPT !.pc = "commit",
                         !.priority = IF me.op = "feature_skip"
                                      THEN SkipNewPriority(store)
                                      ELSE NextPriority(store)])
        /\ UNCHANGED <<store, call, prev, result, mcp_config, agent>>

\* the rows that the for loop of feature_create_bulk session.add()s
SessionAdded(me) ==
    AddLoop(me.features, 0, me.priority, DefaultSource, NoBatch, <<>>).added

\* the assignment (or the session.add()s) and session.commit()
SessionCommit(self) ==
    LET me == sessions[self]
    IN  /\ me.pc = "commit"
        /\ store' =
              IF me.op = "feature_skip"
              THEN [store EXCEPT ![me.feature_id].priority = me.priority]
              ELSE IF me.op = "feature_mark_passing"
              THEN MarkPassingStore(store, me.feature_id)
              ELSE CommitAdded(store, SessionAdded(me))
        /\ sessions' = Committed(self,
              [me EXCEPT
                 !.pc = "done",
                 !.outcome = "committed",
                 !.priority = IF me.op = "feature_mark_passing"
                              THEN store[me.feature_id].priority ELSE @,
                 !.became_passing = /\ me.op = "feature_mark_passing"
                                    /\ ~store[me.feature_id].passes,
                 !.assigned =
                    IF me.op = "feature_skip" THEN {me.priority}
                    ELSE IF me.op = "feature_mark_passing" THEN {}
                    ELSE {SessionAdded(me)[k].priority :
                             k \in DOMAIN SessionAdded(me)}])
        /\ UNCHANGED <<call, prev, result, mcp_config, agent>>

\* session.commit() of a session whose reads are out of date raises instead of
\* writing, where the database refuses such a write
SessionCommitRaises(self) ==
    LET me == sessions[self]
    IN  /\ me.pc = "commit"
        /\ me.stale
        /\ sessions' = Moved(self, [me EXCEPT !.pc = "done", !.outcome = "raised"])
        /\ UNCHANGED <<store, call, prev, result, mcp_config, agent>>

NextConcurrent ==
    \E self \in SessionNames :
        \/ SessionLookup(self)
        \/ SessionScanMin(self)
        \/ SessionScan(self)
        \/ SessionCommit(self)
        \/ SessionCommitRaises(self)

SpecConcurrent == InitConcurrent /\ [][NextConcurrent]_vars

(***************************************************************************)
(* The client loading the project's MCP server configuration.              *)
(***************************************************************************)
InitClient ==
    /\ store = <<>>
    /\ prev = <<>>
    /\ call = [op |-> "startup"]
    /\ result = [started |-> TRUE]
    /\ sessions = <<>>
    /\ mcp_config \in ConfigFiles
    /\ agent = NoAgent

GetProjectMcpServers ==
    \E project_dir \in ProjectDirs :
        /\ call' = [op |-> "get_project_mcp_servers", project_dir |-> project_dir]
        /\ result' = GetProjectMcpServersResult(project_dir, mcp_config)
        /\ UNCHANGED <<store, prev, sessions, mcp_config, agent>>

NextClient == GetProjectMcpServers

SpecClient == InitClient /\ [][NextClient]_vars

(***************************************************************************)
(* A caller working the backlog off: feature_get_next, then                *)
(* feature_mark_passing on the id it returned, until feature_get_next      *)
(* reports that no work is left; no other tool is called meanwhile.  The   *)
(* table it starts on is one the legacy import filled.                     *)
(***************************************************************************)
InitDrain ==
    /\ store \in Tables
    /\ prev = store
    /\ call = [op |-> "startup"]
    /\ result = [started |-> TRUE]
    /\ sessions = <<>>
    /\ mcp_config = [state |-> "missing"]
    /\ agent = [pc |-> "feature_get_next", received |-> <<>>,
                backlog |-> Pending(store)]

AgentGetNext ==
    /\ agent.pc = "feature_get_next"
    /\ Len(agent.received) <= MaxFeatures
    /\ call' = [op |-> "feature_get_next"]
    /\ prev' = store
    /\ result' = GetNextResult(store)
    /\ agent' = IF "error" \in DOMAIN GetNextResult(store)
                THEN [agent EXCEPT !.pc = "done"]
                ELSE [agent EXCEPT !.pc = "feature_mark_passing",
                                   !.received = Append(@, GetNextResult(store))]
    /\ UNCHANGED <<store, sessions, mcp_config>>

AgentMarkPassing ==
    /\ agent.pc = "feature_mark_passing"
    /\ call' = [op |-> "feature_mark_passing", feature_id |-> result.id]
    /\ prev' = store
    /\ store' = MarkPassingStore(store, result.id)
    /\ result' = MarkPassingResult(store, result.id)
    /\ agent' = [agent EXCEPT !.pc = "feature_get_next"]
    /\ UNCHANGED <<sessions, mcp_config>>

NextDrain ==
    \/ AgentGetNext
    \/ AgentMarkPassing

SpecDrain == InitDrain /\ [][NextDrain]_vars /\ WF_vars(NextDrain)

(***************************************************************************)
(* Properties                                                              *)
(***************************************************************************)
\* the last call was feature_skip(x) and neither error was returned
SkipSucceeded ==
    /\ call.op = "feature_skip"
    /\ call.feature_id \in Ids(prev)
    /\ ~prev[call.feature_id].passes

\* C1: feature_get_next returns the 'no work remaining' error exactly when no
\* row has passes=false; otherwise it returns a row with passes=false whose
\* (priority, id) is smallest among the rows with passes=false.
C1_GetNextIsMinimalPending ==
    call.op = "feature_get_next" =>
        /\ ("error" \in DOMAIN result) <=> (\A id \in Ids(prev) : prev[id].passes)
        /\ (result = NoWorkError) <=> (\A id \in Ids(prev) : prev[id].passes)
        /\ (\E id \in Ids(prev) : ~prev[id].passes) =>
              /\ result.id \in Ids(prev)
              /\ result = prev[result.id]
              /\ result.passes = FALSE
              /\ \A id \in Ids(prev) :
                    ~prev[id].passes =>
                        \/ result.priority < prev[id].priority
                        \/ result.priority = prev[id].priority /\ result.id <= id
        /\ store = prev

\* feature_get_next chose between two pending rows of equal priority by id,
\* past a passing row of smaller priority
C1_Witness ==
    /\ call.op = "feature_get_next"
    /\ "error" \notin DOMAIN result
    /\ \E a \in Ids(prev) :
          /\ ~prev[a].passes
          /\ a # result.id
          /\ prev[a].priority = result.priority
    /\ \E c \in Ids(prev) : prev[c].passes /\ prev[c].priority < result.priority

\* C2: a successful feature_skip(x) sets x.priority to 1 + the largest
\* priority of any row (passing or pending, x included) as it was before the
\* call, and returns the previous priority as old_priority and the new one as
\* new_priority.
C2_SkipAssignsMaxPlusOne ==
    SkipSucceeded =>
        LET x == call.feature_id
        IN  /\ \E m \in Ids(prev) : store[x].priority = prev[m].priority + 1
            /\ \A id \in Ids(prev) : prev[id].priority < store[x].priority
            /\ "error" \notin DOMAIN result
            /\ result.id = x
            /\ result.old_priority = prev[x].priority
            /\ result.new_priority = store[x].priority

\* a pending row was skipped while a passing row held the largest priority
C2_Witness ==
    /\ SkipSucceeded
    /\ \E c \in Ids(prev) :
          /\ prev[c].passes
          /\ \A id \in Ids(prev) \ {c} : prev[id].priority < prev[c].priority
    /\ store[call.feature_id].priority # prev[call.feature_id].priority

\* the pending rows of s that sort after row x
PendingAfter(s, x) == {y \in Pending(s) \ {x} : Before(s, x, y)}

\* the first of them
NextAfter(s, x) ==
    CHOOSE y \in PendingAfter(s, x) : \A z \in PendingAfter(s, x) \ {y} : Before(s, y, z)

\* the first pending row of s other than x
FirstOther(s, x) ==
    CHOOSE y \in Pending(s) \ {x} : \A z \in Pending(s) \ {x, y} : Before(s, y, z)

\* C3 as stated: after a successful feature_skip(x), x is last among the
\* pending rows, and feature_get_next returns x if x is the only pending row
\* and otherwise the pending row that was next after x before the skip.
C3_Original_NextAfterSkipped ==
    SkipSucceeded =>
        LET x == call.feature_id
        IN  /\ \A y \in Pending(store) \ {x} : Before(store, y, x)
            /\ Pending(store) = {x} => GetNextResult(store).id = x
            /\ (Pending(store) # {x} /\ PendingAfter(prev, x) # {}) =>
                  GetNextResult(store).id = NextAfter(prev, x)

\* C3 (amended): after a successful feature_skip(x), x is pending and strictly
\* last in the (priority, id) order of the pending rows; feature_get_next
\* returns x if x is the only pending row, and otherwise the first of the other
\* pending rows, which is the row that was next after x when x was the row
\* feature_get_next returned before the skip.
C3_SkippedIsLast ==
    SkipSucceeded =>
        LET x == call.feature_id
        IN  /\ x \in Pending(store)
            /\ \A y \in Pending(store) \ {x} : Before(store, y, x)
            /\ Pending(store) = {x} => GetNextResult(store).id = x
            /\ Pending(store) # {x} =>
                  /\ GetNextResult(store).id = FirstOther(prev, x)
                  /\ GetNextResult(store) = prev[FirstOther(prev, x)]
                  /\ GetNextResult(prev).id = x =>
                        GetNextResult(store).id = NextAfter(prev, x)

\* the head of the queue was skipped with another pending row behind it and a
\* passing row of larger priority in the table
C3_Witness ==
    /\ SkipSucceeded
    /\ GetNextResult(prev).id = call.feature_id
    /\ Pending(prev) # {call.feature_id}
    /\ \E c \in Passing(prev) : \A id \in Pending(prev) : prev[id].priority < prev[c].priority
    /\ GetNextResult(store).id # call.feature_id

\* C4: feature_skip(x) on a row with passes=true returns the 'already passing'
\* error and leaves every row of the table as it was.
C4_SkipPassingRejected ==
    (/\ call.op = "feature_skip"
     /\ call.feature_id \in Ids(prev)
     /\ prev[call.feature_id].passes) =>
        /\ "error" \in DOMAIN result
        /\ result = AlreadyPassingError
        /\ store = prev

\* a passing row was skipped while a pending row with a larger priority exists
C4_Witness ==
    /\ call.op = "feature_skip"
    /\ call.feature_id \in Ids(prev)
    /\ prev[call.feature_id].passes
    /\ Pending(prev) # {}
    /\ "error" \in DOMAIN result

\* C5: feature_mark_passing(x) on an existing row leaves the table as before
\* except x.passes=true and returns x's row with passes=true, never an error;
\* calling it again changes nothing and returns the same row.
C5_MarkPassingIdempotent ==
    (call.op = "feature_mark_passing" /\ call.feature_id \in Ids(prev)) =>
        LET x == call.feature_id
        IN  /\ Ids(store) = Ids(prev)
            /\ store[x].passes = TRUE
            /\ \A id \in Ids(prev) \ {x} : store[id] = prev[id]
            /\ [store EXCEPT ![x].passes = prev[x].passes] = prev
            /\ "error" \notin DOMAIN result
            /\ result = store[x]
            /\ result.passes = TRUE
            /\ prev[x].passes => store = prev
            /\ MarkPassingStore(store, x) = store
            /\ MarkPassingResult(store, x) = result

\* feature_mark_passing was called on a row that was passing already
C5_Witness ==
    /\ call.op = "feature_mark_passing"
    /\ call.feature_id \in Ids(prev)
    /\ prev[call.feature_id].passes
    /\ Pending(prev) # {}
    /\ result.passes = TRUE

\* C6: a row that has passes=true keeps it in every step, whichever call is
\* made, and is never removed.
C6_PassingIsTerminal ==
    [][\A id \in Ids(store) :
          store[id].passes => (id \in Ids(store') /\ store'[id].passes)]_vars

\* a skip or a bulk create changed a table that held a passing row
C6_Witness ==
    /\ call.op \in {"feature_skip", "feature_create_bulk"}
    /\ store # prev
    /\ Passing(prev) # {}
    /\ Passing(prev) \subseteq Passing(store)

\* every dict of the list has the four required keys
AllComplete(features) ==
    \A j \in 1 .. Len(features) : RequiredKeys \subseteq DOMAIN features[j]

\* the last call was a feature_create_bulk in the given mode whose dicts were
\* all complete and whose commit did not fail
BulkSucceeded(priority_mode) ==
    /\ call.op = "feature_create_bulk"
    /\ call.priority_mode = priority_mode
    /\ call.store_fault = "none"
    /\ AllComplete(call.features)

\* the rows after the call are those before it followed by one new pending row
\* per dict, in input order, dict i (from 0) with priority start + i
RowsCreatedFrom(start) ==
    /\ Len(store) = Len(prev) + Len(call.features)
    /\ \A id \in Ids(prev) : store[id] = prev[id]
    /\ \A i \in 0 .. Len(call.features) - 1 :
          LET row == store[Len(prev) + 1 + i]
              item == call.features[i + 1]
          IN  /\ row.priority = start + i
              /\ row.passes = FALSE
              /\ row.id = Len(prev) + 1 + i
              /\ row.category = item.category
              /\ row.name = item.name
              /\ row.description = item.description
              /\ row.steps = item.steps

\* C7: a successful append of K dicts to a table whose largest priority is M
\* creates K rows with priorities M+1 .. M+K in input order and returns
\* start_priority = M+1 and created = K.
C7_AppendAfterMax ==
    (BulkSucceeded("append") /\ Ids(prev) # {}) =>
        LET M == result.start_priority - 1
        IN  /\ "error" \notin DOMAIN result
            /\ \E m \in Ids(prev) : prev[m].priority = M
            /\ \A id \in Ids(prev) : prev[id].priority <= M
            /\ RowsCreatedFrom(M + 1)
            /\ result.created = Len(call.features)

\* two dicts were appended to a table whose largest priority a passing row held
C7_Witness ==
    /\ BulkSucceeded("append")
    /\ Len(call.features) >= 2
    /\ \E c \in Passing(prev) : \A id \in Ids(prev) \ {c} : prev[id].priority < prev[c].priority
    /\ Len(store) = Len(prev) + 2

\* C8: a successful prepend of K dicts, when a pending row exists and P is the
\* smallest pending priority, creates rows with priorities P-K .. P-1 in input
\* order; when no pending row exists, the resulting table and start_priority
\* are those of the same call in append mode.
C8_PrependBeforeMinPending ==
    BulkSucceeded("prepend") =>
        LET K == Len(call.features)
            P == result.start_priority + K
        IN  /\ "error" \notin DOMAIN result
            /\ result.created = K
            /\ (\E id \in Ids(prev) : ~prev[id].passes) =>
                  /\ \E m \in Ids(prev) : ~prev[m].passes /\ prev[m].priority = P
                  /\ \A id \in Ids(prev) : ~prev[id].passes => P <= prev[id].priority
                  /\ RowsCreatedFrom(P - K)
            /\ (\A id \in Ids(prev) : prev[id].passes) =>
                  /\ store = CreateBulkStore(prev, call.features, "append",
                                             call.source, call.batch_id, "none")
                  /\ result.start_priority =
                        CreateBulkResult(prev, call.features, "append",
                                         call.source, call.batch_id, "none").start_priority
                  /\ Ids(prev) = {} => RowsCreatedFrom(1)
                  /\ Ids(prev) # {} =>
                        /\ \E m \in Ids(prev) : result.start_priority = prev[m].priority + 1
                        /\ \A id \in Ids(prev) : prev[id].priority < result.start_priority
                        /\ RowsCreatedFrom(result.start_priority)

\* dicts were prepended to a table with a pending row and a passing row of
\* smaller priority
C8_Witness ==
    /\ BulkSucceeded("prepend")
    /\ Len(call.features) >= 1
    /\ Pending(prev) # {}
    /\ \E c \in Passing(prev) : \A id \in Pending(prev) : prev[c].priority < prev[id].priority
    /\ Len(store) > Len(prev)

\* C9: after a successful prepend of at least one dict to a table with a
\* pending row, every new row sorts before every row that was pending, the new
\* rows sort in input order, and feature_get_next returns the row of the first
\* dict.
C9_PrependedBatchFirst ==
    (/\ BulkSucceeded("prepend")
     /\ Len(call.features) >= 1
     /\ \E id \in Ids(prev) : ~prev[id].passes) =>
        LET new == Ids(store) \ Ids(prev)
        IN  /\ Cardinality(new) = Len(call.features)
            /\ \A n \in new : \A o \in Ids(prev) :
                  ~prev[o].passes => Before(store, n, o)
            /\ \A i, j \in 1 .. Len(call.features) :
                  i < j => Before(store, Len(prev) + i, Len(prev) + j)
            /\ \A i \in 1 .. Len(call.features) :
                  store[Len(prev) + i].name = call.features[i].name
            /\ GetNextResult(store) = store[Len(prev) + 1]
            /\ GetNextResult(store).name = call.features[1].name
            /\ GetNextResult(store).priority = result.start_priority

\* two dicts were prepended to a table with a pending row
C9_Witness ==
    /\ BulkSucceeded("prepend")
    /\ Len(call.features) >= 2
    /\ Pending(prev) # {}
    /\ call.features[1] # call.features[2]
    /\ Len(store) = Len(prev) + 2

\* the indexes (from 0) of the dicts that lack a required key
IncompleteIndexes(features) ==
    {i \in 0 .. Len(features) - 1 : ~(RequiredKeys \subseteq DOMAIN features[i + 1])}

\* C10: a feature_create_bulk call with a dict that lacks a required key
\* returns an error, which names the index of the first such dict unless the
\* store failed before the loop, and a call during which the store fails
\* returns an error; in both cases the table is as before the call.  Any other
\* call creates one row per dict.
C10_BulkAllOrNothing ==
    call.op = "feature_create_bulk" =>
        LET bad == IncompleteIndexes(call.features)
        IN  /\ bad # {} =>
                  /\ store = prev
                  /\ "error" \in DOMAIN result
                  /\ call.store_fault # "query" =>
                        \E i \in bad :
                            /\ \A j \in bad : i <= j
                            /\ result = MissingFieldsError(i)
            /\ (bad = {} /\ call.store_fault # "none") =>
                  /\ store = prev
                  /\ "error" \in DOMAIN result
            /\ (bad = {} /\ call.store_fault = "none") =>
                  /\ "error" \notin DOMAIN result
                  /\ result.created = Len(call.features)
                  /\ Len(store) = Len(prev) + Len(call.features)
                  /\ SubSeq(store, 1, Len(prev)) = prev
            /\ store = prev \/ Len(store) = Len(prev) + Len(call.features)

\* a list whose first dict was complete and whose second was not was rejected
\* on a table that held rows
C10_Witness ==
    /\ call.op = "feature_create_bulk"
    /\ Len(call.features) >= 2
    /\ 0 \notin IncompleteIndexes(call.features)
    /\ 1 \in IncompleteIndexes(call.features)
    /\ Ids(prev) # {}
    /\ store = prev
    /\ "error" \in DOMAIN result

\* the last call was a feature_create_bulk whose dicts were all complete and
\* whose session did not fail
BulkCommitted ==
    /\ call.op = "feature_create_bulk"
    /\ call.store_fault = "none"
    /\ AllComplete(call.features)

\* C13 as stated: no two rows have the same priority.
C13_Original_NoSharedPriority ==
    \A a, b \in Ids(store) : a # b => store[a].priority # store[b].priority

\* C13 (amended): two rows with the same priority are never both pending; the
\* priority that feature_skip or an append assigns is the priority of no other
\* row; the priorities a prepend assigns differ from each other and from the
\* priority of every pending row.
C13_SharedPriorityNeedsPassingRow ==
    /\ \A a, b \in Ids(store) :
          (a # b /\ store[a].priority = store[b].priority) =>
              (store[a].passes \/ store[b].passes)
    /\ SkipSucceeded =>
          \A id \in Ids(store) \ {call.feature_id} :
              store[id].priority # store[call.feature_id].priority
    /\ (BulkCommitted /\ call.priority_mode # "prepend") =>
          \A n \in Ids(store) \ Ids(prev) : \A id \in Ids(store) \ {n} :
              store[id].priority # store[n].priority
    /\ (BulkCommitted /\ call.priority_mode = "prepend") =>
          \A n \in Ids(store) \ Ids(prev) :
              /\ \A id \in Pending(store) \ {n} : store[id].priority # store[n].priority
              /\ \A m \in (Ids(store) \ Ids(prev)) \ {n} : store[m].priority # store[n].priority

\* a prepend gave a new row the priority of a passing row, next to a pending
\* row that was there before
C13_Witness ==
    /\ BulkCommitted
    /\ call.priority_mode = "prepend"
    /\ Pending(prev) # {}
    /\ \E n \in Ids(store) \ Ids(prev) : \E c \in Passing(prev) :
          store[n].priority = store[c].priority

\* C14: feature_mark_passing and feature_skip with an id that no row has
\* return the not-found error object, raise nothing and leave the table as it
\* was.
C14_UnknownIdIsStructuredError ==
    (/\ call.op \in {"feature_mark_passing", "feature_skip"}
     /\ call.feature_id \notin Ids(prev)) =>
        /\ "error" \in DOMAIN result
        /\ "raised" \notin DOMAIN result
        /\ result = [error |-> <<"Feature with ID ", call.feature_id, " not found">>]
        /\ store = prev

\* feature_skip was called with an unknown id on a table that holds a pending row
C14_Witness ==
    /\ call.op = "feature_skip"
    /\ call.feature_id \notin Ids(prev)
    /\ Pending(prev) # {}
    /\ "error" \in DOMAIN result

\* C15 as stated: a feature_create_bulk call whose priority_mode is neither
\* 'append' nor 'prepend' returns an error and creates no row.
C15_Original_UnknownModeRejected ==
    (/\ call.op = "feature_create_bulk"
     /\ call.priority_mode \notin {"append", "prepend"}) =>
        /\ "error" \in DOMAIN result
        /\ store = prev

QueryOps ==
    {"feature_get_stats", "feature_get_next", "feature_get_for_regression",
     "feature_get_all_categories", "feature_get_summary", "feature_search"}

\* the columns of a row other than the given one are what they were
SameExcept(id, column) ==
    \A k \in (DOMAIN prev[id]) \ {column} : store[id][k] = prev[id][k]

\* C16: no call removes a row; feature_mark_passing(x) changes nothing but
\* x.passes and feature_skip(x) nothing but x.priority (every other column of
\* x, every other row and the set of ids stay); feature_create_bulk changes no
\* row that existed; the six query tools change nothing.
C16_OnlyPassesAndPriorityChange ==
    /\ Ids(prev) \subseteq Ids(store)
    /\ \A id \in Ids(prev) : DOMAIN store[id] = DOMAIN prev[id]
    /\ call.op = "feature_mark_passing" =>
          /\ Ids(store) = Ids(prev)
          /\ \A id \in Ids(prev) \ {call.feature_id} : store[id] = prev[id]
          /\ call.feature_id \in Ids(prev) => SameExcept(call.feature_id, "passes")
    /\ call.op = "feature_skip" =>
          /\ Ids(store) = Ids(prev)
          /\ \A id \in Ids(prev) \ {call.feature_id} : store[id] = prev[id]
          /\ call.feature_id \in Ids(prev) => SameExcept(call.feature_id, "priority")
    /\ call.op = "feature_create_bulk" =>
          \A id \in Ids(prev) : store[id] = prev[id]
    /\ call.op \in QueryOps => store = prev

\* feature_skip moved a row past a pending row of larger priority, next to a
\* passing row
C16_Witness ==
    /\ SkipSucceeded
    /\ store # prev
    /\ \E b \in Pending(prev) : prev[b].priority > prev[call.feature_id].priority
    /\ Passing(prev) # {}

\* 100 * passing / total rounded to one decimal place, as the number of
\* tenths, in exact arithmetic: the nearest tenth, and of two tenths equally
\* near either the even one or the upper one
RoundedTenths(passing, total) ==
    LET q == (1000 * passing) \div total
        r == (1000 * passing) % total
    IN  IF 2 * r < total THEN {q}
        ELSE IF 2 * r > total THEN {q + 1}
        ELSE {q + 1, IF q % 2 = 0 THEN q ELSE q + 1}

\* C17 as stated: feature_get_stats returns total = the number of rows,
\* passing = the number of rows with passes=true (0 <= passing <= total) and
\* percentage = 100 * passing / total rounded to one decimal place when
\* total > 0, and 0.0 when the table is empty.  The code does not: of 80 rows
\* with 23 passing it returns 28.7, and 28.75 rounds to 28.8.
C17_Original_StatsCountAndRound ==
    call.op = "feature_get_stats" =>
        /\ result.total = Cardinality(Ids(prev))
        /\ result.passing = Cardinality({id \in Ids(prev) : prev[id].passes})
        /\ 0 <= result.passing /\ result.passing <= result.total
        /\ result.total > 0 =>
              result.percentage \in RoundedTenths(result.passing, result.total)
        /\ result.total = 0 => result.percentage = 0

\* C18: feature_get_for_regression(limit), 1 <= limit <= 10, returns exactly
\* min(limit, number of passing rows) rows, no row twice, every one a row of
\* the table with passes=true (never a pending one), and count is that number,
\* whichever rows the random order puts first; the table stays as it was.
C18_RegressionSampleIsPassing ==
    call.op = "feature_get_for_regression" =>
        LET passing == {id \in Ids(prev) : prev[id].passes}
            wanted == IF call.limit < Cardinality(passing)
                      THEN call.limit ELSE Cardinality(passing)
        IN  /\ call.limit >= 1 /\ call.limit <= 10
            /\ Len(result.features) = wanted
            /\ result.count = wanted
            /\ \A i, j \in DOMAIN result.features :
                  i # j => result.features[i].id # result.features[j].id
            /\ \A i \in DOMAIN result.features :
                  /\ result.features[i].id \in passing
                  /\ result.features[i] = prev[result.features[i].id]
                  /\ result.features[i].passes = TRUE
            /\ store = prev

\* limit 2 on a table with three passing rows: two of them are returned, the
\* one of larger id first
C18_Witness ==
    /\ call.op = "feature_get_for_regression"
    /\ call.limit = 2
    /\ Cardinality(Passing(prev)) = 3
    /\ result.count = 2
    /\ result.features[1].id > result.features[2].id

\* the characters of a text, letters in lower case
LowerChars(text) == [i \in DOMAIN text |-> Lower(text[i])]

\* `part` occurs in `text` as a run of characters, case ignored
Contains(text, part) ==
    \E i \in 0 .. (Len(text) - Len(part)) :
        SubSeq(LowerChars(text), i + 1, i + Len(part)) = LowerChars(part)

\* C19 as stated: feature_search(query, limit) returns only rows whose name or
\* description contains query as a case-insensitive substring, for any query
\* ('%' and '_' in it included), in ascending priority order, at most limit of
\* them, and count is their number.
C19_Original_SearchMatchesSubstring ==
    call.op = "feature_search" =>
        /\ \A i \in DOMAIN result.features :
              LET row == prev[result.features[i].id]
              IN  \/ Contains(Chars(row.name), Chars(call.query))
                  \/ Contains(Chars(row.description), Chars(call.query))
        /\ \A i, j \in DOMAIN result.features :
              i < j => prev[result.features[i].id].priority
                          <= prev[result.features[j].id].priority
        /\ Len(result.features) <= call.limit
        /\ result.count = Len(result.features)

\* the names of the categories that a feature_get_summary result lists
SummaryNames(summary) ==
    [i \in DOMAIN summary.categories |-> summary.categories[i].name]

\* C20: feature_get_summary lists exactly the categories that
\* feature_get_all_categories lists for the same table, each once and in the
\* same ascending order; a category's total is the number of its rows and its
\* passing the number of those with passes=true; overall.total and
\* overall.passing are the sums of the per-category values and equal the
\* total and passing of feature_get_stats.
C20_SummaryAgreesWithCategoriesAndStats ==
    /\ call.op = "feature_get_all_categories" =>
          /\ {result.categories[i] : i \in DOMAIN result.categories}
                 = {prev[id].category : id \in Ids(prev)}
          /\ \A i, j \in DOMAIN result.categories :
                i < j => CharsLess(Chars(result.categories[i]), Chars(result.categories[j]))
          /\ result.count = Len(result.categories)
          /\ result.categories = SummaryNames(GetSummaryResult(prev))
    /\ call.op = "feature_get_summary" =>
          /\ SummaryNames(result) = GetAllCategoriesResult(prev).categories
          /\ \A i, j \in DOMAIN result.categories :
                i < j => CharsLess(Chars(result.categories[i].name),
                                   Chars(result.categories[j].name))
          /\ \A i \in DOMAIN result.categories :
                LET rows == {id \in Ids(prev) :
                                prev[id].category = result.categories[i].name}
                IN  /\ result.categories[i].total = Cardinality(rows)
                    /\ result.categories[i].passing =
                          Cardinality({id \in rows : prev[id].passes})
          /\ result.overall.total = SumOf(result.categories, "total")
          /\ result.overall.passing = SumOf(result.categories, "passing")
          /\ result.overall.total = GetStatsResult(prev).total
          /\ result.overall.passing = GetStatsResult(prev).passing
          /\ store = prev

\* feature_get_summary on a table with two categories, the row of smaller id
\* in the category that sorts last, and a passing and a pending row in it
C20_Witness ==
    /\ call.op = "feature_get_summary"
    /\ Len(result.categories) = 2
    /\ prev[1].category = result.categories[2].name
    /\ result.categories[2].total = 2
    /\ result.categories[2].passing = 1

\* both calls have ended, each with a commit
BothCommitted ==
    /\ DOMAIN sessions = SessionNames
    /\ \A t \in SessionNames : sessions[t].outcome = "committed"

\* the two calls are two feature_skip calls on different rows, a feature_skip
\* and a feature_create_bulk, or two feature_create_bulk calls
BothAssignPriorities ==
    /\ \A t \in SessionNames :
          sessions[t].op \in {"feature_skip", "feature_create_bulk"}
    /\ (\A t \in SessionNames : sessions[t].op = "feature_skip") =>
          sessions["a"].feature_id # sessions["b"].feature_id

\* C11 as stated: when two priority-assigning calls that ran at the same time
\* have both committed, no priority that one of them assigned was also
\* assigned by the other.
C11_Original_ConcurrentPrioritiesDiffer ==
    (BothCommitted /\ BothAssignPriorities) =>
        sessions["a"].assigned \cap sessions["b"].assigned = {}

\* C12 as stated: while a feature_skip(x) and a feature_mark_passing(x) run
\* at the same time, a row x with passes=true has the priority it had when it
\* became passing.
C12_Original_PassingKeepsPriority ==
    (/\ DOMAIN sessions = SessionNames
     /\ {sessions[t].op : t \in SessionNames}
            = {"feature_skip", "feature_mark_passing"}
     /\ sessions["a"].feature_id = sessions["b"].feature_id) =>
        \A t \in SessionNames :
            (sessions[t].became_passing /\ store[sessions[t].feature_id].passes) =>
                store[sessions[t].feature_id].priority = sessions[t].priority

\* the file holds a JSON object whose every member is a JSON object
ValidConfig(file) ==
    /\ file.state = "json"
    /\ file.value.kind = "object"
    /\ \A name \in DOMAIN file.value.members :
          file.value.members[name].kind = "object"

\* C21 as stated: get_project_mcp_servers returns {} and raises nothing when
\* the file is missing, unreadable, not JSON, or JSON that is not an object
\* of objects; for a valid file it returns the servers of the file, each as
\* in the file except that an entry without "cwd" has cwd = the project
\* directory.
C21_Original_InvalidConfigGivesEmptyDict ==
    call.op = "get_project_mcp_servers" =>
        /\ "raised" \notin DOMAIN result
        /\ ~ValidConfig(mcp_config) => result.returned = EmptyDict
        /\ ValidConfig(mcp_config) =>
              /\ DOMAIN result.returned = DOMAIN mcp_config.value.members
              /\ \A name \in DOMAIN result.returned :
                    LET given == mcp_config.value.members[name].members
                        got == result.returned[name].members
                    IN  /\ DOMAIN got = (DOMAIN given) \cup {"cwd"}
                        /\ \A k \in DOMAIN given : got[k] = given[k]
                        /\ "cwd" \notin DOMAIN given =>
                              got.cwd = Resolve(call.project_dir)

\* C22: from an empty table, after any sequence of feature_create_bulk,
\* feature_skip and feature_mark_passing calls made one at a time, no two rows
\* with passes=false have the same priority; the row that feature_get_next
\* returns therefore has a priority strictly below that of every other
\* pending row, and the order by id decides nothing.
C22_PendingPrioritiesDistinct ==
    /\ \A a, b \in Pending(store) : a # b => store[a].priority # store[b].priority
    /\ (call.op = "feature_get_next" /\ Pending(prev) # {}) =>
          \A id \in Pending(prev) \ {result.id} :
              result.priority < prev[id].priority

\* feature_get_next chose among three pending rows whose priorities run
\* against their ids (rows were prepended): it returned the largest id
C22_Witness ==
    /\ call.op = "feature_get_next"
    /\ Cardinality(Pending(prev)) = 3
    /\ \A id \in Pending(prev) : id <= result.id
    /\ \A a, b \in Pending(prev) : a < b => prev[a].priority > prev[b].priority

\* the rows the caller got so far are different rows of its backlog, came in
\* ascending (priority, id) order, and together with the rows still pending
\* (the one in hand apart) they are the backlog
DrainInOrder ==
    LET got == {agent.received[i].id : i \in DOMAIN agent.received}
    IN  /\ \A i, j \in DOMAIN agent.received :
              i < j =>
                  /\ agent.received[i].id # agent.received[j].id
                  /\ \/ agent.received[i].priority < agent.received[j].priority
                     \/ /\ agent.received[i].priority = agent.received[j].priority
                        /\ agent.received[i].id < agent.received[j].id
        /\ got \subseteq agent.backlog
        /\ agent.pc = "feature_get_next" =>
              /\ Pending(store) = agent.backlog \ got
              /\ Cardinality(got) + Cardinality(Pending(store))
                    = Cardinality(agent.backlog)
        /\ agent.pc = "done" =>
              /\ result = NoWorkError
              /\ Len(agent.received) = Cardinality(agent.backlog)
              /\ got = agent.backlog
              /\ Pending(store) = {}

\* C23: a caller that alternates feature_get_next and feature_mark_passing on
\* the returned id, from any table with n pending rows, gets n different rows
\* in ascending (priority, id) order, none twice, and then the 'no work'
\* result with no row left pending; and it does get there.
C23_BacklogDrains == []DrainInOrder /\ <>(agent.pc = "done")

\* the caller drained a backlog of three rows, two of them of equal
\* priority, past a passing row
C23_Witness ==
    /\ agent.pc = "done"
    /\ Len(agent.received) = 3
    /\ agent.received[1].priority = agent.received[2].priority
    /\ agent.received[2].priority < agent.received[3].priority
====
